---- MODULE Spec2Model ----
(***************************************************************************)
(* The Pocket Wasm query engine (packages/wasm-engine/rust/src): field     *)
(* resolution, filter evaluation, multi-key sorting, the query pipeline    *)
(* and grouped aggregation over serde_json values.                         *)
(*                                                                         *)
(* A serde_json::Value is a record tagged by t.  Strings are sequences of  *)
(* code points so that String::cmp is the lexicographic order it is in     *)
(* Rust.  A Number is n/d with f telling whether serde_json holds it as a  *)
(* float (N::Float) or as an integer (N::PosInt / N::NegInt).              *)
(* Option<&Value> is the value itself or None.                             *)
(***************************************************************************)
EXTENDS Integers, Sequences, FiniteSets, TLC

VARIABLES op, documents, filter, args, ret

vars == <<op, documents, filter, args, ret>>

---------------------------------------------------------------------------
(* serde_json::Value *)

None == [t |-> "none"]
Null == [t |-> "null"]
Bool(b) == [t |-> "bool", b |-> b]
Num(n) == [t |-> "num", n |-> n, d |-> 1, f |-> FALSE]
Flt(n, d) == [t |-> "num", n |-> n, d |-> d, f |-> TRUE]
Str(s) == [t |-> "str", s |-> s]
Arr(a) == [t |-> "arr", a |-> a]
Obj(o) == [t |-> "obj", o |-> o]

EmptyMap == [k \in {} |-> Null]

(* The strings "a", "b", "ab" and "old" by their code points. *)
StrA == Str(<<97>>)
StrB == Str(<<98>>)
StrAB == Str(<<97, 98>>)
StrOld == Str(<<111, 108, 100>>)

SeqsUpTo(S, n) == UNION {[1..k -> S] : k \in 0..n}

Range(s) == {s[i] : i \in DOMAIN s}

---------------------------------------------------------------------------
(* engine.rs: get_field.  A path is the sequence of its '.'-separated     *)
(* segments; str::split never yields an empty sequence.                   *)

(* serde_json Value::get(&str): Some only on an object that has the key. *)
value_get(v, part) ==
    IF v.t = "obj" /\ part \in DOMAIN v.o THEN v.o[part] ELSE None

RECURSIVE get_field_from(_, _, _)
get_field_from(current, path, i) ==
    IF i > Len(path) THEN current
    ELSE LET next == value_get(current, path[i])
         IN  IF next = None THEN None
             ELSE get_field_from(next, path, i + 1)

get_field(doc, path) == get_field_from(doc, path, 1)

---------------------------------------------------------------------------
(* Orderings *)

Less == "Less"
Equal == "Equal"
Greater == "Greater"
NoOrdering == "None"

reverse(o) == IF o = Less THEN Greater ELSE IF o = Greater THEN Less ELSE Equal

(* f64::partial_cmp on as_f64 of two Numbers (never NaN in a Value). *)
cmp_f64(a, b) ==
    IF a.n * b.d < b.n * a.d THEN Less
    ELSE IF a.n * b.d > b.n * a.d THEN Greater
    ELSE Equal

(* String::cmp: lexicographic over the bytes. *)
RECURSIVE cmp_str_from(_, _, _)
cmp_str_from(a, b, i) ==
    IF i > Len(a) /\ i > Len(b) THEN Equal
    ELSE IF i > Len(a) THEN Less
    ELSE IF i > Len(b) THEN Greater
    ELSE IF a[i] < b[i] THEN Less
    ELSE IF a[i] > b[i] THEN Greater
    ELSE cmp_str_from(a, b, i + 1)

cmp_str(a, b) == cmp_str_from(a, b, 1)

cmp_bool(a, b) ==
    IF a = b THEN Equal ELSE IF b THEN Less ELSE Greater

---------------------------------------------------------------------------
(* filter.rs *)

Condition(field, operator, value) ==
    [kind |-> "condition", field |-> field, operator |-> operator, value |-> value]

Group(logic, conditions) ==
    [kind |-> "group", logic |-> logic, conditions |-> conditions]

compare_values_orders_bools(a, b) ==
    IF a = None THEN NoOrdering
    ELSE IF a.t = "num" /\ b.t = "num" THEN cmp_f64(a, b)
    ELSE IF a.t = "str" /\ b.t = "str" THEN cmp_str(a.s, b.s)
    ELSE IF a.t = "bool" /\ b.t = "bool" THEN cmp_bool(a.b, b.b)
    ELSE IF a.t = "null" /\ b.t = "null" THEN Equal
    ELSE NoOrdering

compare_values(a, b) ==
    IF a = None THEN NoOrdering
    ELSE IF a.t = "num" /\ b.t = "num" THEN cmp_f64(a, b)
    ELSE IF a.t = "str" /\ b.t = "str" THEN cmp_str(a.s, b.s)
    ELSE NoOrdering

arr_contains(arr, v) == \E i \in 1..Len(arr) : arr[i] = v

str_starts_with(s, target) ==
    Len(target) <= Len(s) /\ SubSeq(s, 1, Len(target)) = target

str_ends_with(s, target) ==
    Len(target) <= Len(s)
    /\ SubSeq(s, Len(s) - Len(target) + 1, Len(s)) = target

str_contains(s, target) ==
    \E k \in 0..Len(s) :
        k + Len(target) <= Len(s) /\ SubSeq(s, k + 1, k + Len(target)) = target

evaluate_exists_null_absent(field_value, value) ==
    LET exists == field_value # None /\ field_value # Null
    IN  IF value = Bool(TRUE) THEN exists ELSE ~exists

evaluate_exists(field_value, value) ==
    LET exists == field_value # None
    IN  IF value = Bool(TRUE) THEN exists ELSE ~exists

evaluate_condition(doc, cond) ==
    LET field_value == get_field(doc, cond.field)
        ordering == compare_values(field_value, cond.value)
        both_strings == field_value # None /\ field_value.t = "str"
                        /\ cond.value.t = "str"
    IN  CASE cond.operator = "eq" -> field_value = cond.value
          [] cond.operator = "ne" -> field_value # cond.value
          [] cond.operator = "gt" -> ordering = Greater
          [] cond.operator = "gte" -> ordering \in {Greater, Equal}
          [] cond.operator = "lt" -> ordering = Less
          [] cond.operator = "lte" -> ordering \in {Less, Equal}
          [] cond.operator = "in" ->
                IF field_value # None /\ cond.value.t = "arr"
                THEN arr_contains(cond.value.a, field_value)
                ELSE FALSE
          [] cond.operator = "nin" ->
                IF field_value # None /\ cond.value.t = "arr"
                THEN ~arr_contains(cond.value.a, field_value)
                ELSE TRUE
          [] cond.operator = "contains" ->
                IF both_strings
                THEN str_contains(field_value.s, cond.value.s)
                ELSE FALSE
          [] cond.operator = "startsWith" ->
                IF both_strings
                THEN str_starts_with(field_value.s, cond.value.s)
                ELSE FALSE
          [] cond.operator = "endsWith" ->
                IF both_strings
                THEN str_ends_with(field_value.s, cond.value.s)
                ELSE FALSE
          [] cond.operator = "exists" ->
                evaluate_exists(field_value, cond.value)
          [] OTHER -> FALSE

(* Iterator::all and Iterator::any over group.conditions, short-circuit. *)
RECURSIVE evaluate_filter(_, _)
RECURSIVE iter_all(_, _, _)
RECURSIVE iter_any(_, _, _)

iter_all(doc, conditions, i) ==
    IF i > Len(conditions) THEN TRUE
    ELSE IF ~evaluate_filter(doc, conditions[i]) THEN FALSE
    ELSE iter_all(doc, conditions, i + 1)

iter_any(doc, conditions, i) ==
    IF i > Len(conditions) THEN FALSE
    ELSE IF evaluate_filter(doc, conditions[i]) THEN TRUE
    ELSE iter_any(doc, conditions, i + 1)

evaluate_group_empty_and_false(doc, group) ==
    IF group.logic = "and"
    THEN Len(group.conditions) > 0 /\ iter_all(doc, group.conditions, 1)
    ELSE iter_any(doc, group.conditions, 1)

evaluate_group(doc, group) ==
    IF group.logic = "and"
    THEN iter_all(doc, group.conditions, 1)
    ELSE iter_any(doc, group.conditions, 1)

evaluate_filter(doc, node) ==
    IF node.kind = "group"
    THEN evaluate_group(doc, node)
    ELSE evaluate_condition(doc, node)

---------------------------------------------------------------------------
(* Leaf conditions on one document: every operator, paths that resolve,   *)
(* that miss and that run through a non-object, literals of every type.   *)

CondDocs ==
    { Obj([age |-> Num(30)]),
      Obj([age |-> Num(25)]),
      Obj([age |-> StrOld]),
      Obj([age |-> StrA]),
      Obj([age |-> Null]),
      Obj([age |-> Bool(TRUE)]),
      Obj([age |-> Arr(<<Num(30)>>)]),
      Obj([age |-> Obj(EmptyMap)]),
      Obj([n |-> Obj([age |-> Num(30)])]),
      Obj([n |-> Num(30)]),
      Obj([n |-> Obj([age |-> Null])]),
      Obj(EmptyMap),
      Num(30) }

CondPaths == { <<"age">>, <<"n", "age">>, <<"zip">> }

Relational == {"gt", "gte", "lt", "lte"}

Operators ==
    Relational \cup {"eq", "ne", "in", "nin", "contains", "startsWith",
                     "endsWith", "exists", "regex"}

Literals ==
    { Num(25), Num(30), Flt(30, 1), StrOld, StrA, StrAB, Bool(TRUE),
      Bool(FALSE), Null, Arr(<<Num(30)>>), Obj(EmptyMap) }

Conditions ==
    { Condition(p, o, v) : p \in CondPaths, o \in Operators, v \in Literals }

InitCond ==
    /\ op = "init"
    /\ documents \in { <<d>> : d \in CondDocs }
    /\ filter \in Conditions
    /\ args = None
    /\ ret = None

EvaluateCondition ==
    /\ op = "init"
    /\ op' = "evaluate_condition"
    /\ ret' = evaluate_condition(documents[1], filter)
    /\ UNCHANGED <<documents, filter, args>>

NextCond == EvaluateCondition

SpecCond == InitCond /\ [][NextCond]_vars

(* "The ordering satisfies the operator", read off the values themselves  *)
(* rather than through compare_values.                                    *)
LexLess(a, b) ==
    \E k \in 0..Len(a) :
        /\ k <= Len(b)
        /\ \A j \in 1..k : a[j] = b[j]
        /\ \/ (k = Len(a) /\ k < Len(b))
           \/ (k < Len(a) /\ k < Len(b) /\ a[k + 1] < b[k + 1])

Satisfies(operator, less, equal) ==
    CASE operator = "gt" -> ~less /\ ~equal
      [] operator = "gte" -> ~less
      [] operator = "lt" -> less
      [] operator = "lte" -> less \/ equal

(* Resolution of a path of one or two segments, written on the document. *)
Present(doc, path) ==
    /\ doc.t = "obj"
    /\ path[1] \in DOMAIN doc.o
    /\ \/ Len(path) = 1
       \/ /\ doc.o[path[1]].t = "obj"
          /\ path[2] \in DOMAIN doc.o[path[1]].o

(* C4: gt, gte, lt and lte are false when the field is Absent, when the   *)
(* resolved value and the literal differ in type, or when the type has no *)
(* order (boolean, null, object, array); they are true only when both are *)
(* numbers or both are strings and the ordering satisfies the operator.   *)
RelationalNeverMatchesIncomparable ==
    (op = "evaluate_condition" /\ filter.operator \in Relational) =>
        LET fv == get_field(documents[1], filter.field)
            lit == filter.value
        IN  /\ ret \in BOOLEAN
            /\ (fv = None \/ fv.t # lit.t \/ fv.t \notin {"num", "str"})
                   => ret = FALSE
            /\ ret = TRUE =>
                   \/ /\ fv.t = "num" /\ lit.t = "num"
                      /\ Satisfies(filter.operator, fv.n < lit.n, fv.n = lit.n)
                   \/ /\ fv.t = "str" /\ lit.t = "str"
                      /\ Satisfies(filter.operator, LexLess(fv.s, lit.s),
                                   fv.s = lit.s)

(* {age: "old"} against age gt 25 is a type mismatch and does not match,  *)
(* while {age: 30} against the same condition matches.                    *)
WitnessRelationalMismatch ==
    /\ op = "evaluate_condition"
    /\ filter = Condition(<<"age">>, "gt", Num(25))
    /\ documents = <<Obj([age |-> StrOld])>>
    /\ ret = FALSE

(* C5: (p, exists, true) matches iff p resolves, (p, exists, false) iff   *)
(* it does not; a present null exists, and a path through a missing or    *)
(* non-object segment is Absent.                                          *)
ExistsIffResolved ==
    (op = "evaluate_condition" /\ filter.operator = "exists") =>
        LET doc == documents[1]
            path == filter.field
        IN  /\ filter.value = Bool(TRUE) => (ret = Present(doc, path))
            /\ filter.value = Bool(FALSE) => (ret = ~Present(doc, path))
            /\ Present(doc, path) = (get_field(doc, path) # None)

(* {n: {age: null}} has n.age: the null is found and counts as existing. *)
WitnessExistsNull ==
    /\ op = "evaluate_condition"
    /\ filter = Condition(<<"n", "age">>, "exists", Bool(TRUE))
    /\ documents = <<Obj([n |-> Obj([age |-> Null])])>>
    /\ ret = TRUE

---------------------------------------------------------------------------
(* Filter trees on one document.  A tree of depth d + 1 is a group whose  *)
(* children are trees of depth at most d, at most one of them a group.    *)

MaxDepth == 2
MaxChildren == 2

FilterDocs ==
    { Obj([age |-> Num(30), role |-> StrA]),
      Obj([age |-> Num(20), role |-> StrA]),
      Obj([role |-> StrB]) }

FilterLeaves ==
    { Condition(<<"age">>, "gte", Num(25)),
      Condition(<<"role">>, "eq", StrA) }

Logics == {"and", "or"}

InsertAt(s, k, x) == SubSeq(s, 1, k) \o <<x>> \o SubSeq(s, k + 1, Len(s))

RECURSIVE FilterTrees(_)
FilterTrees(depth) ==
    IF depth = 0 THEN FilterLeaves
    ELSE LET groups == FilterTrees(depth - 1) \ FilterLeaves
             leaves == SeqsUpTo(FilterLeaves, MaxChildren)
             children ==
                 leaves \cup
                 { InsertAt(c, k, g) :
                     <<c, k>> \in { <<c, k>> \in leaves \X (0..MaxChildren) :
                                      Len(c) < MaxChildren /\ k <= Len(c) },
                     g \in groups }
         IN  FilterLeaves \cup { Group(l, c) : l \in Logics, c \in children }

RECURSIVE Nodes(_)
Nodes(node) ==
    IF node.kind = "group"
    THEN {node} \cup UNION { Nodes(node.conditions[i]) :
                               i \in DOMAIN node.conditions }
    ELSE {node}

InitFilter ==
    /\ op = "init"
    /\ documents \in { <<d>> : d \in FilterDocs }
    /\ filter \in FilterTrees(MaxDepth)
    /\ args = None
    /\ ret = None

EvaluateFilter ==
    /\ op = "init"
    /\ op' = "evaluate_filter"
    /\ ret' = evaluate_filter(documents[1], filter)
    /\ UNCHANGED <<documents, filter, args>>

NextFilter == EvaluateFilter

SpecFilter == InitFilter /\ [][NextFilter]_vars

(* What a group is claimed to compute from its children's results. *)
GroupMeaning(doc, group) ==
    IF group.logic = "and"
    THEN \A i \in DOMAIN group.conditions :
             evaluate_filter(doc, group.conditions[i])
    ELSE \E i \in DOMAIN group.conditions :
             evaluate_filter(doc, group.conditions[i])

(* C3: an AND group is true iff every child is true, an OR group iff at   *)
(* least one child is true; an empty AND matches every document and an    *)
(* empty OR none, at the root and at every nested group.                  *)
GroupIsAllOrAny ==
    op = "evaluate_filter" =>
        LET doc == documents[1]
        IN  /\ filter.kind = "group" => ret = GroupMeaning(doc, filter)
            /\ \A g \in Nodes(filter) :
                  g.kind = "group" =>
                     /\ evaluate_filter(doc, g) = GroupMeaning(doc, g)
                     /\ g.conditions = <<>> =>
                            evaluate_filter(doc, g) = (g.logic = "and")

(* An empty AND nested in an OR makes the OR match a document that the    *)
(* OR's other child rejects.                                              *)
WitnessNestedEmptyAnd ==
    /\ op = "evaluate_filter"
    /\ filter = Group("or", <<Condition(<<"age">>, "gte", Num(25)),
                              Group("and", <<>>)>>)
    /\ documents = <<Obj([role |-> StrB])>>
    /\ ret = TRUE

---------------------------------------------------------------------------
(* sort.rs *)

SortClause(field, direction) == [field |-> field, direction |-> direction]

compare_sort_values(a, b) ==
    IF a = None /\ b = None THEN Equal
    ELSE IF a = None THEN Less
    ELSE IF b = None THEN Greater
    ELSE IF a.t = "num" /\ b.t = "num" THEN cmp_f64(a, b)
    ELSE IF a.t = "str" /\ b.t = "str" THEN cmp_str(a.s, b.s)
    ELSE IF a.t = "bool" /\ b.t = "bool" THEN cmp_bool(a.b, b.b)
    ELSE Equal

(* The closure handed to sort_by: the first clause that does not compare  *)
(* Equal decides, reversed when its direction is "desc".                  *)
RECURSIVE compare_documents_from(_, _, _, _)
compare_documents_from(a, b, clauses, i) ==
    IF i > Len(clauses) THEN Equal
    ELSE LET clause == clauses[i]
             av == get_field(a, clause.field)
             bv == get_field(b, clause.field)
             ordering == compare_sort_values(av, bv)
             directed == IF clause.direction = "desc"
                         THEN reverse(ordering) ELSE ordering
         IN  IF directed # Equal THEN directed
             ELSE compare_documents_from(a, b, clauses, i + 1)

compare_documents(a, b, clauses) == compare_documents_from(a, b, clauses, 1)

is_less_or_equal(a, b, clauses) == compare_documents(a, b, clauses) # Greater

(* slice::sort_by calls its sort with |a, b| compare(a, b) == Less. *)
is_less(a, b, clauses) == compare_documents(a, b, clauses) = Less

(* slice::sort_by on a slice of at most 20 elements is an insertion sort. *)
(* Current toolchains insert each element into the sorted prefix to its   *)
(* left (insertion_sort_shift_left); older ones insert each element into  *)
(* the sorted suffix to its right (insert_head).  The two agree whenever  *)
(* the comparison is a total preorder; which one runs is the build's.     *)
SortBuilds == {"shift_left", "insert_head"}

RECURSIVE insert_tail_pos(_, _, _, _)
insert_tail_pos(sorted, x, clauses, j) ==
    IF j >= 1 /\ is_less(x, sorted[j], clauses)
    THEN insert_tail_pos(sorted, x, clauses, j - 1)
    ELSE j

RECURSIVE insertion_sort_shift_left(_, _, _)
insertion_sort_shift_left(v, clauses, i) ==
    IF i > Len(v) THEN v
    ELSE LET sorted == SubSeq(v, 1, i - 1)
             j == insert_tail_pos(sorted, v[i], clauses, i - 1)
             placed == SubSeq(sorted, 1, j) \o <<v[i]>>
                       \o SubSeq(sorted, j + 1, i - 1)
         IN  insertion_sort_shift_left(placed \o SubSeq(v, i + 1, Len(v)),
                                       clauses, i + 1)

RECURSIVE insert_head_pos(_, _, _, _)
insert_head_pos(sorted, x, clauses, j) ==
    IF j <= Len(sorted) /\ is_less(sorted[j], x, clauses)
    THEN insert_head_pos(sorted, x, clauses, j + 1)
    ELSE j

RECURSIVE insertion_sort_insert_head(_, _, _)
insertion_sort_insert_head(v, clauses, i) ==
    IF i < 1 THEN v
    ELSE LET sorted == SubSeq(v, i + 1, Len(v))
             j == insert_head_pos(sorted, v[i], clauses, 1)
             placed == SubSeq(sorted, 1, j - 1) \o <<v[i]>>
                       \o SubSeq(sorted, j, Len(sorted))
         IN  insertion_sort_insert_head(SubSeq(v, 1, i - 1) \o placed,
                                        clauses, i - 1)

sort_by(v, clauses, build) ==
    IF build = "shift_left"
    THEN insertion_sort_shift_left(v, clauses, 2)
    ELSE insertion_sort_insert_head(v, clauses, Len(v) - 1)

sort_documents(docs, clauses, build) == sort_by(docs, clauses, build)

---------------------------------------------------------------------------
(* Sorting a slice in place, again and again with the same clauses. *)

MaxSortDocs == 3

SortDocs ==
    { Obj([role |-> StrA, age |-> Num(1)]),
      Obj([role |-> StrA, age |-> Num(2)]),
      Obj([role |-> StrB, age |-> Num(1)]),
      Obj([role |-> StrB, age |-> Num(2)]),
      Obj([role |-> Num(5), age |-> Num(1)]),
      Obj([age |-> Num(2)]),
      Obj([role |-> StrA, age |-> StrA]),
      Obj([role |-> StrA]) }

RoleAscAgeDesc ==
    <<SortClause(<<"role">>, "asc"), SortClause(<<"age">>, "desc")>>

SortSpecs ==
    { RoleAscAgeDesc,
      <<SortClause(<<"age">>, "asc")>>,
      <<SortClause(<<"age">>, "desc"), SortClause(<<"role">>, "desc")>>,
      <<>> }

InitSort ==
    /\ op = "init"
    /\ documents \in SeqsUpTo(SortDocs, MaxSortDocs)
    /\ filter = None
    /\ args \in [clauses : SortSpecs, build : SortBuilds]
    /\ ret = None

(* ret keeps the slice as it was before the call. *)
SortDocuments ==
    /\ op \in {"init", "sort_documents"}
    /\ op' = "sort_documents"
    /\ documents' = sort_documents(documents, args.clauses, args.build)
    /\ ret' = documents
    /\ UNCHANGED <<filter, args>>

NextSort == SortDocuments

SpecSort == InitSort /\ [][NextSort]_vars

HasRole(doc, r) == "role" \in DOMAIN doc.o /\ doc.o.role = r

NumericAge(doc) == "age" \in DOMAIN doc.o /\ doc.o.age.t = "num"

(* C7: after sorting by [(role, asc), (age, desc)] every role "a" comes   *)
(* before every role "b" and the ages within role "a" do not increase,    *)
(* whatever other documents are in the slice.                             *)
ClausePrecedence ==
    (op = "sort_documents" /\ args.clauses = RoleAscAgeDesc) =>
        \A i, j \in DOMAIN documents :
            i < j =>
                /\ ~(HasRole(documents[i], StrB) /\ HasRole(documents[j], StrA))
                /\ (/\ HasRole(documents[i], StrA) /\ HasRole(documents[j], StrA)
                    /\ NumericAge(documents[i]) /\ NumericAge(documents[j]))
                       => documents[i].o.age.n >= documents[j].o.age.n

---------------------------------------------------------------------------
(* engine.rs: execute and apply_projection.  An Option that is not a      *)
(* resolved field is None or Some(x).                                     *)

Some(x) == [t |-> "some", v |-> x]

Projection(include, exclude) == [include |-> include, exclude |-> exclude]

QueryPlan(f, sort, skip, limit, projection) ==
    [filter |-> f, sort |-> sort, skip |-> skip, limit |-> limit,
     projection |-> projection]

map_insert(map, key, val) ==
    [k \in DOMAIN map \cup {key} |-> IF k = key THEN val ELSE map[k]]

map_remove(map, key) == [k \in DOMAIN map \ {key} |-> map[k]]

RECURSIVE project_include(_, _, _, _)
project_include(map, include, result, i) ==
    IF i > Len(include) THEN result
    ELSE project_include(map, include,
                         IF include[i] \in DOMAIN map
                         THEN map_insert(result, include[i], map[include[i]])
                         ELSE result,
                         i + 1)

RECURSIVE project_exclude(_, _, _)
project_exclude(result, exclude, i) ==
    IF i > Len(exclude) THEN result
    ELSE project_exclude(map_remove(result, exclude[i]), exclude, i + 1)

apply_projection_missing_as_null(doc, projection) ==
    IF doc.t = "obj" /\ projection.include # None
    THEN Obj([k \in Range(projection.include.v) |->
                 IF k \in DOMAIN doc.o THEN doc.o[k] ELSE Null])
    ELSE IF doc.t = "obj" /\ projection.exclude # None
    THEN Obj(project_exclude(doc.o, projection.exclude.v, 1))
    ELSE doc

apply_projection(doc, projection) ==
    IF doc.t = "obj" /\ projection.include # None
    THEN Obj(project_include(doc.o, projection.include.v, EmptyMap, 1))
    ELSE IF doc.t = "obj" /\ projection.exclude # None
    THEN Obj(project_exclude(doc.o, projection.exclude.v, 1))
    ELSE doc

(* documents.iter().filter(|doc| evaluate_filter(doc, f)).collect() *)
RECURSIVE filter_documents(_, _, _)
filter_documents(docs, f, i) ==
    IF i > Len(docs) THEN <<>>
    ELSE (IF evaluate_filter(docs[i], f) THEN <<docs[i]>> ELSE <<>>)
         \o filter_documents(docs, f, i + 1)

apply_filter(docs, f) ==
    IF f # None THEN filter_documents(docs, f.v, 1) ELSE docs

apply_sort(results, sort, build) ==
    IF sort # None THEN sort_documents(results, sort.v, build) ELSE results

apply_skip_keeps_overshoot(results, skip) ==
    IF skip # None
    THEN IF skip.v < Len(results)
         THEN SubSeq(results, skip.v + 1, Len(results))
         ELSE results
    ELSE results

apply_skip(results, skip) ==
    IF skip # None
    THEN IF skip.v < Len(results)
         THEN SubSeq(results, skip.v + 1, Len(results))
         ELSE <<>>
    ELSE results

(* Vec::truncate *)
apply_limit(results, limit) ==
    IF limit # None /\ limit.v < Len(results)
    THEN SubSeq(results, 1, limit.v)
    ELSE results

apply_projections(results, projection) ==
    IF projection # None
    THEN [i \in DOMAIN results |-> apply_projection(results[i], projection.v)]
    ELSE results

execute_counts_returned(docs, plan, build) ==
    LET filtered == apply_filter(docs, plan.filter)
        sorted == apply_sort(filtered, plan.sort, build)
        skipped == apply_skip(sorted, plan.skip)
        limited == apply_limit(skipped, plan.limit)
    IN  [documents |-> apply_projections(limited, plan.projection),
         total_matched |-> Len(limited)]

execute(docs, plan, build) ==
    LET filtered == apply_filter(docs, plan.filter)
        total_matched == Len(filtered)
        sorted == apply_sort(filtered, plan.sort, build)
        skipped == apply_skip(sorted, plan.skip)
        limited == apply_limit(skipped, plan.limit)
    IN  [documents |-> apply_projections(limited, plan.projection),
         total_matched |-> total_matched]

---------------------------------------------------------------------------
(* Projection of one document. *)

MaxFields == 2

ProjectDocs ==
    { Obj([x |-> Num(1), y |-> Num(2)]),
      Obj([x |-> Null]),
      Obj([y |-> Obj([z |-> Num(1)])]),
      Obj(EmptyMap),
      Num(1) }

ProjectKeys == {"x", "y", "z"}

FieldLists == {None} \cup { Some(l) : l \in SeqsUpTo(ProjectKeys, MaxFields) }

Projections == { Projection(i, e) : i \in FieldLists, e \in FieldLists }

InitProject ==
    /\ op = "init"
    /\ documents \in { <<d>> : d \in ProjectDocs }
    /\ filter = None
    /\ args \in Projections
    /\ ret = None

ApplyProjection ==
    /\ op = "init"
    /\ op' = "apply_projection"
    /\ ret' = apply_projection(documents[1], args)
    /\ UNCHANGED <<documents, filter, args>>

NextProject == ApplyProjection

SpecProject == InitProject /\ [][NextProject]_vars

(* C10: include = all top-level keys gives back the document, and so does *)
(* exclude = []; an included key the document lacks is left out, not set  *)
(* to null; with both lists given only include is applied.                *)
ProjectionRoundTrip ==
    (op = "apply_projection" /\ documents[1].t = "obj") =>
        LET doc == documents[1]
        IN  /\ (args.include # None
                /\ Range(args.include.v) = DOMAIN doc.o) => ret = doc
            /\ (args.include = None /\ args.exclude = Some(<<>>)) => ret = doc
            /\ args.include # None =>
                  /\ ret.t = "obj"
                  /\ DOMAIN ret.o = Range(args.include.v) \cap DOMAIN doc.o
                  /\ \A k \in DOMAIN ret.o : ret.o[k] = doc.o[k]

(* {x: 1, y: 2} projected with include [y, x] and an exclude list that    *)
(* names x comes back whole.                                              *)
WitnessIncludeAllKeys ==
    /\ op = "apply_projection"
    /\ documents = <<Obj([x |-> Num(1), y |-> Num(2)])>>
    /\ args = Projection(Some(<<"y", "x">>), Some(<<"x">>))
    /\ ret = documents[1]

---------------------------------------------------------------------------
(* Queries over a fixed collection: a first plan, then plans that keep    *)
(* its filter and change one of sort, skip, limit and projection.         *)

MaxDocs == 3
MaxSkip == 2
MaxLimit == 2

QueryDocs ==
    { Obj([x |-> Num(1)]),
      Obj([x |-> Num(2)]),
      Obj([y |-> Num(1)]) }

PlanValues(knob) ==
    CASE knob = "filter" ->
            { None,
              Some(Condition(<<"x">>, "gte", Num(2))),
              Some(Group("or", <<Condition(<<"x">>, "eq", Num(1)),
                                 Condition(<<"x">>, "exists", Bool(FALSE))>>)) }
      [] knob = "sort" -> { None, Some(<<SortClause(<<"x">>, "desc")>>) }
      [] knob = "skip" -> {None} \cup { Some(n) : n \in 0..MaxSkip }
      [] knob = "limit" -> {None} \cup { Some(n) : n \in 0..MaxLimit }
      [] knob = "projection" ->
            { None, Some(Projection(Some(<<"x">>), None)) }

Plans ==
    { QueryPlan(f, s, k, l, p) :
        f \in PlanValues("filter"), s \in PlanValues("sort"),
        k \in PlanValues("skip"), l \in PlanValues("limit"),
        p \in PlanValues("projection") }

InitQuery ==
    /\ op = "init"
    /\ documents \in SeqsUpTo(QueryDocs, MaxDocs)
    /\ filter = None
    /\ args = None
    /\ ret = None

Execute(plan, build) ==
    /\ op = "init"
    /\ op' = "execute"
    /\ args' = [plan |-> plan, build |-> build]
    /\ ret' = execute(documents, plan, build)
    /\ UNCHANGED <<documents, filter>>

ExecuteAgain(knob, value) ==
    /\ op = "execute"
    /\ value # args.plan[knob]
    /\ args' = [args EXCEPT !.plan[knob] = value]
    /\ ret' = execute(documents, args'.plan, args.build)
    /\ UNCHANGED <<op, documents, filter>>

NextQuery ==
    \/ \E plan \in Plans, build \in SortBuilds : Execute(plan, build)
    \/ \E knob \in {"sort", "skip", "limit", "projection"} :
           \E value \in PlanValues(knob) : ExecuteAgain(knob, value)

SpecQuery == InitQuery /\ [][NextQuery]_vars

(* The indexes of the input documents that pass the plan's filter. *)
Passing ==
    { i \in DOMAIN documents :
        args.plan.filter = None
        \/ evaluate_filter(documents[i], args.plan.filter.v) }

(* The k-th passing document in input order. *)
NthPassing(k) ==
    documents[CHOOSE i \in Passing :
                  Cardinality({j \in Passing : j <= i}) = k]

FilteredThenSorted ==
    LET filtered == [k \in 1..Cardinality(Passing) |-> NthPassing(k)]
    IN  IF args.plan.sort = None THEN filtered
        ELSE sort_documents(filtered, args.plan.sort.v, args.build)

Min(a, b) == IF a < b THEN a ELSE b
Max(a, b) == IF a > b THEN a ELSE b

(* C1: total_matched is the number of input documents that pass the       *)
(* filter (all of them without a filter), and a plan with the same filter *)
(* over the same documents returns the same total_matched whatever its    *)
(* sort, skip, limit and projection.                                      *)
TotalMatchedCountsFilter ==
    /\ [](op = "execute" => ret.total_matched = Cardinality(Passing))
    /\ [][(op = "execute" /\ op' = "execute" /\ documents' = documents
           /\ args'.plan.filter = args.plan.filter)
             => ret'.total_matched = ret.total_matched]_vars

(* Two of three documents returned after a plan change, three matched. *)
WitnessTotalAboveReturned ==
    /\ op = "execute"
    /\ args.plan.filter = None
    /\ args.plan.limit = Some(2)
    /\ ret.total_matched = 3
    /\ Len(ret.documents) = 2

(* C2: the returned documents are the slice of the filtered-then-sorted   *)
(* sequence from index skip holding at most limit elements, each one      *)
(* projected; its length is min(limit, max(0, total_matched - skip)).     *)
ResultIsSlice ==
    op = "execute" =>
        LET plan == args.plan
            skip == IF plan.skip = None THEN 0 ELSE plan.skip.v
            rest == Max(0, ret.total_matched - skip)
            length == IF plan.limit = None THEN rest
                      ELSE Min(plan.limit.v, rest)
        IN  /\ Len(ret.documents) = length
            /\ \A k \in 1..length :
                  ret.documents[k] =
                      IF plan.projection = None
                      THEN FilteredThenSorted[skip + k]
                      ELSE apply_projection(FilteredThenSorted[skip + k],
                                            plan.projection.v)

(* Filter, sort, skip 1 and limit 1 together: of {x:1}, {y:1}, {x:2} the  *)
(* filter keeps {x:1} and {y:1}, and the second of them is returned.      *)
WitnessSkipThenLimit ==
    /\ op = "execute"
    /\ documents = <<Obj([x |-> Num(1)]), Obj([y |-> Num(1)]),
                     Obj([x |-> Num(2)])>>
    /\ args.plan.filter # None
    /\ args.plan.skip = Some(1)
    /\ args.plan.limit = Some(1)
    /\ args.plan.projection = None
    /\ ret.total_matched = 2
    /\ ret.documents = <<Obj([y |-> Num(1)])>>

---------------------------------------------------------------------------
(* aggregate.rs *)

AggregateClause(function, field, alias) ==
    [function |-> function, field |-> field, alias |-> alias]

GroupByClause(fields, aggregates) ==
    [fields |-> fields, aggregates |-> aggregates]

(* Value::to_string: the compact JSON text.  Object keys come out in key  *)
(* order (serde_json's Map is a BTreeMap); KeyOrder lists the keys of the *)
(* model's documents in that order.                                       *)
KeyOrder == <<"age", "n", "role", "score", "x", "y", "z">>

char_to_string(c) ==
    CASE c = 34 -> "\\\""
      [] c = 92 -> "\\\\"
      [] c = 97 -> "a"
      [] c = 98 -> "b"
      [] c = 100 -> "d"
      [] c = 108 -> "l"
      [] c = 111 -> "o"
      [] c = 124 -> "|"

RECURSIVE chars_to_string(_, _)
chars_to_string(s, i) ==
    IF i > Len(s) THEN ""
    ELSE char_to_string(s[i]) \o chars_to_string(s, i + 1)

RECURSIVE to_string(_)
RECURSIVE array_to_string(_, _)
RECURSIVE object_to_string(_, _, _)

array_to_string(a, i) ==
    IF i > Len(a) THEN ""
    ELSE (IF i > 1 THEN "," ELSE "") \o to_string(a[i])
         \o array_to_string(a, i + 1)

object_to_string(o, i, first) ==
    IF i > Len(KeyOrder) THEN ""
    ELSE IF KeyOrder[i] \in DOMAIN o
         THEN (IF first THEN "" ELSE ",") \o "\"" \o KeyOrder[i] \o "\":"
              \o to_string(o[KeyOrder[i]]) \o object_to_string(o, i + 1, FALSE)
         ELSE object_to_string(o, i + 1, first)

to_string(v) ==
    CASE v.t = "null" -> "null"
      [] v.t = "bool" -> IF v.b THEN "true" ELSE "false"
      [] v.t = "num" -> IF v.f THEN ToString(v.n) \o ".0" ELSE ToString(v.n)
      [] v.t = "str" -> "\"" \o chars_to_string(v.s, 1) \o "\""
      [] v.t = "arr" -> "[" \o array_to_string(v.a, 1) \o "]"
      [] v.t = "obj" -> "{" \o object_to_string(v.o, 1, TRUE) \o "}"

(* The field path as the string it is in the GroupByClause. *)
RECURSIVE path_string(_, _)
path_string(path, i) ==
    IF i > Len(path) THEN ""
    ELSE (IF i > 1 THEN "." ELSE "") \o path[i] \o path_string(path, i + 1)

(* fields.iter().map(..).collect::<Vec<_>>().join("|") *)
RECURSIVE group_key(_, _, _)
group_key(doc, fields, i) ==
    IF i > Len(fields) THEN ""
    ELSE LET v == get_field(doc, fields[i])
         IN  (IF i > 1 THEN "|" ELSE "")
             \o (IF v # None THEN to_string(v) ELSE "null")
             \o group_key(doc, fields, i + 1)

(* groups.entry(key).or_default().push(doc), document by document. *)
RECURSIVE group_documents(_, _, _, _)
group_documents(filtered, fields, groups, i) ==
    IF i > Len(filtered) THEN groups
    ELSE LET key == group_key(filtered[i], fields, 1)
             entry == IF key \in DOMAIN groups THEN groups[key] ELSE <<>>
         IN  group_documents(filtered, fields,
                             map_insert(groups, key, Append(entry, filtered[i])),
                             i + 1)

(* The f64 values of the aggregate's field over the group, in order. *)
RECURSIVE aggregate_values(_, _, _)
aggregate_values(group_docs, field, i) ==
    IF field = None \/ i > Len(group_docs) THEN <<>>
    ELSE LET v == get_field(group_docs[i], field.v)
         IN  (IF v # None /\ v.t = "num" THEN <<v>> ELSE <<>>)
             \o aggregate_values(group_docs, field, i + 1)

RECURSIVE f64_sum(_, _)
f64_sum(values, i) ==
    IF i > Len(values) THEN 0 ELSE values[i].n + f64_sum(values, i + 1)

RECURSIVE f64_reduce(_, _, _, _)
f64_reduce(values, pick, acc, i) ==
    IF i > Len(values) THEN acc
    ELSE f64_reduce(values, pick,
                    IF cmp_f64(values[i], acc) = pick THEN values[i] ELSE acc,
                    i + 1)

RECURSIVE Gcd(_, _)
Gcd(a, b) == IF b = 0 THEN a ELSE Gcd(b, a % b)

(* Number::from_f64 of the quotient s / n. *)
f64_div(s, n) == Flt(s \div Gcd(s, n), n \div Gcd(s, n))

aggregate_result_count_values(group_docs, agg) ==
    LET values == aggregate_values(group_docs, agg.field, 1)
    IN  CASE agg.function = "count" -> Num(Len(values))
          [] agg.function = "sum" -> Flt(f64_sum(values, 1), 1)
          [] agg.function = "avg" ->
                IF values = <<>> THEN Num(0)
                ELSE f64_div(f64_sum(values, 1), Len(values))
          [] agg.function = "min" ->
                IF values = <<>> THEN Null
                ELSE Flt(f64_reduce(values, Less, values[1], 2).n, 1)
          [] agg.function = "max" ->
                IF values = <<>> THEN Null
                ELSE Flt(f64_reduce(values, Greater, values[1], 2).n, 1)
          [] OTHER -> Null

aggregate_result_avg_null(group_docs, agg) ==
    LET values == aggregate_values(group_docs, agg.field, 1)
    IN  CASE agg.function = "count" -> Num(Len(group_docs))
          [] agg.function = "sum" -> Flt(f64_sum(values, 1), 1)
          [] agg.function = "avg" ->
                IF values = <<>> THEN Null
                ELSE f64_div(f64_sum(values, 1), Len(values))
          [] agg.function = "min" ->
                IF values = <<>> THEN Null
                ELSE Flt(f64_reduce(values, Less, values[1], 2).n, 1)
          [] agg.function = "max" ->
                IF values = <<>> THEN Null
                ELSE Flt(f64_reduce(values, Greater, values[1], 2).n, 1)
          [] OTHER -> Null

aggregate_result(group_docs, agg) ==
    LET values == aggregate_values(group_docs, agg.field, 1)
    IN  CASE agg.function = "count" -> Num(Len(group_docs))
          [] agg.function = "sum" -> Flt(f64_sum(values, 1), 1)
          [] agg.function = "avg" ->
                IF values = <<>> THEN Num(0)
                ELSE f64_div(f64_sum(values, 1), Len(values))
          [] agg.function = "min" ->
                IF values = <<>> THEN Null
                ELSE Flt(f64_reduce(values, Less, values[1], 2).n, 1)
          [] agg.function = "max" ->
                IF values = <<>> THEN Null
                ELSE Flt(f64_reduce(values, Greater, values[1], 2).n, 1)
          [] OTHER -> Null

RECURSIVE row_fields(_, _, _, _)
row_fields(first, fields, row, i) ==
    IF i > Len(fields) THEN row
    ELSE LET val == get_field(first, fields[i])
         IN  row_fields(first, fields,
                        IF val # None
                        THEN map_insert(row, path_string(fields[i], 1), val)
                        ELSE row,
                        i + 1)

RECURSIVE row_aggregates(_, _, _, _)
row_aggregates(group_docs, aggregates, row, i) ==
    IF i > Len(aggregates) THEN row
    ELSE row_aggregates(group_docs, aggregates,
                        map_insert(row, aggregates[i].alias,
                                   aggregate_result(group_docs, aggregates[i])),
                        i + 1)

group_row(group_docs, group_by) ==
    Obj(row_aggregates(group_docs, group_by.aggregates,
                       row_fields(group_docs[1], group_by.fields, EmptyMap, 1),
                       1))

(* order is the order in which the HashMap hands out its keys.  groups    *)
(* and order are locals of the function, kept next to the rows returned.  *)
execute_aggregate(docs, group_by, f, order) ==
    LET filtered == apply_filter(docs, f)
        groups == group_documents(filtered, group_by.fields, EmptyMap, 1)
    IN  [results |-> [i \in DOMAIN order |->
                         group_row(groups[order[i]], group_by)],
         filtered |-> filtered,
         groups |-> groups,
         order |-> order]

(* The orders a HashMap with these keys can be iterated in. *)
KeyOrders(keys) ==
    { o \in [1..Cardinality(keys) -> keys] :
        \A i, j \in DOMAIN o : i # j => o[i] # o[j] }

---------------------------------------------------------------------------
(* Aggregation over a fixed collection. *)

MaxAggDocs == 3
MaxAggregates == 2

AggDocs ==
    { Obj([role |-> StrA, score |-> Num(1)]),
      Obj([role |-> StrA, score |-> StrA]),
      Obj([role |-> Null]),
      Obj([score |-> Num(2)]) }

AggFunctions == {"count", "sum", "avg", "min", "max", "median"}

AggFields == { None, Some(<<"score">>) }

FirstClauses ==
    { AggregateClause(fn, fd, "t") : fn \in AggFunctions, fd \in AggFields }
    \cup { AggregateClause("count", None, "role") }

NextClauses == { AggregateClause("min", Some(<<"score">>), "t") }

AggregateLists ==
    {<<>>} \cup
    { <<c>> \o rest : c \in FirstClauses,
                      rest \in SeqsUpTo(NextClauses, MaxAggregates - 1) }

GroupBys ==
    { GroupByClause(fs, as) :
        fs \in { <<<<"role">>>>, <<<<"role">>, <<"score">>>> },
        as \in AggregateLists }

AggFilters == { None, Some(Condition(<<"role">>, "exists", Bool(TRUE))) }

InitAggregate ==
    /\ op = "init"
    /\ documents \in SeqsUpTo(AggDocs, MaxAggDocs)
    /\ filter \in AggFilters
    /\ args \in GroupBys
    /\ ret = None

ExecuteAggregate(order) ==
    /\ op = "init"
    /\ op' = "execute_aggregate"
    /\ ret' = execute_aggregate(documents, args, filter, order)
    /\ UNCHANGED <<documents, filter, args>>

NextAggregate ==
    \E order \in KeyOrders(DOMAIN group_documents(apply_filter(documents, filter),
                                                  args.fields, EmptyMap, 1)) :
        ExecuteAggregate(order)

SpecAggregate == InitAggregate /\ [][NextAggregate]_vars

(* The documents of row i's group, and the row itself. *)
RowGroup(i) == ret.groups[ret.order[i]]
Row(i) == ret.results[i].o

(* Clause k is the last one to write its alias into the row. *)
LastWriter(k) ==
    \A m \in DOMAIN args.aggregates :
        m > k => args.aggregates[m].alias # args.aggregates[k].alias

(* The value clause k leaves in row i: computed for the row's group and,  *)
(* unless a later clause reuses the alias, stored under the alias.        *)
ClauseValue(i, k, value) ==
    /\ aggregate_result(RowGroup(i), args.aggregates[k]) = value
    /\ LastWriter(k) => Row(i)[args.aggregates[k].alias] = value

RECURSIVE SumOfGroupSizes(_)
SumOfGroupSizes(i) ==
    IF i = 0 THEN 0 ELSE Len(RowGroup(i)) + SumOfGroupSizes(i - 1)

PassingAggregate ==
    { i \in DOMAIN documents :
        filter = None \/ evaluate_filter(documents[i], filter.v) }

(* C8: in every row a count aggregate is the number of filtered documents *)
(* in the row's group, whatever its field; the group sizes of all rows    *)
(* add up to the number of documents that pass the filter.                *)
CountIsGroupSize ==
    op = "execute_aggregate" =>
        /\ \A i \in DOMAIN ret.results :
              LET members == { j \in DOMAIN ret.filtered :
                                 group_key(ret.filtered[j], args.fields, 1)
                                     = ret.order[i] }
              IN  /\ Len(RowGroup(i)) = Cardinality(members)
                  /\ \A k \in DOMAIN args.aggregates :
                        args.aggregates[k].function = "count" =>
                            ClauseValue(i, k, Num(Cardinality(members)))
        /\ SumOfGroupSizes(Len(ret.results)) = Cardinality(PassingAggregate)

(* Two documents with role "a", one of them with a score that is no       *)
(* number, counted over the field score: the count is 2.                  *)
WitnessCountNonNumericField ==
    /\ op = "execute_aggregate"
    /\ documents = << Obj([role |-> StrA, score |-> Num(1)]),
                      Obj([role |-> Null]),
                      Obj([role |-> StrA, score |-> StrA]) >>
    /\ args = GroupByClause(<<<<"role">>>>,
                            <<AggregateClause("count", Some(<<"score">>), "t")>>)
    /\ \E i \in DOMAIN ret.results :
          ret.results[i] = Obj([role |-> StrA, t |-> Num(2)])

(* No document of the group resolves the clause's field to a number. *)
NoNumericValue(group_docs, field) ==
    \/ field = None
    \/ \A j \in DOMAIN group_docs :
          LET v == get_field(group_docs[j], field.v)
          IN  v = None \/ v.t # "num"

IsZero(v) == v.t = "num" /\ v.n = 0

(* C9: over a group without a numeric value for the field, sum and avg    *)
(* are 0 and min and max are null; an unknown function gives null; every  *)
(* group still gets its row, with every alias in it.                      *)
EmptyNumericSetDefaults ==
    op = "execute_aggregate" =>
        /\ Len(ret.results) = Cardinality(DOMAIN ret.groups)
        /\ \A i \in DOMAIN ret.results :
              \A k \in DOMAIN args.aggregates :
                 LET agg == args.aggregates[k]
                     value == aggregate_result(RowGroup(i), agg)
                 IN  /\ agg.alias \in DOMAIN Row(i)
                     /\ LastWriter(k) => Row(i)[agg.alias] = value
                     /\ agg.function \notin {"count", "sum", "avg", "min", "max"}
                            => value = Null
                     /\ NoNumericValue(RowGroup(i), agg.field) =>
                           /\ agg.function \in {"sum", "avg"} => IsZero(value)
                           /\ agg.function \in {"min", "max"} => value = Null

(* Two groups without a numeric score, one with a string score and one   *)
(* without the field: avg is 0 in both rows.                              *)
WitnessAvgZero ==
    /\ op = "execute_aggregate"
    /\ documents = << Obj([role |-> StrA, score |-> StrA]),
                      Obj([role |-> Null]) >>
    /\ args = GroupByClause(<<<<"role">>>>,
                            <<AggregateClause("avg", Some(<<"score">>), "t")>>)
    /\ Range(ret.results) = { Obj([role |-> StrA, t |-> Num(0)]),
                              Obj([role |-> Null, t |-> Num(0)]) }

(* The resolved group-by values of a document, Absent kept apart from a   *)
(* present null.                                                          *)
GroupValues(doc) ==
    [k \in DOMAIN args.fields |-> get_field(doc, args.fields[k])]

(* The rows whose group holds the document. *)
RowsHolding(doc) ==
    { i \in DOMAIN ret.results : doc \in Range(RowGroup(i)) }

(* C11: the filtered documents are partitioned by their group-by values:  *)
(* each belongs to exactly one row's group, two of them share a group iff *)
(* every group-by field resolves to the identical value in both (Absent   *)
(* being another value than null), and there are as many rows as distinct *)
(* tuples of resolved values.                                             *)
GroupsPartitionByValues ==
    op = "execute_aggregate" =>
        LET docs == Range(ret.filtered)
        IN  /\ \A d \in docs : Cardinality(RowsHolding(d)) = 1
            /\ \A d1, d2 \in docs :
                  (RowsHolding(d1) = RowsHolding(d2))
                      <=> (GroupValues(d1) = GroupValues(d2))
            /\ Len(ret.results) = Cardinality({ GroupValues(d) : d \in docs })

====
